---- MODULE Spec2Model ----
(***************************************************************************)
(* A model of stackblitz-zip (src/src/download.ts): the URL parser, the    *)
(* path normalizer, and the fetch / sanitize / size-guard pipeline shared  *)
(* by downloadToResponse (with its wrappers downloadToFile,                *)
(* downloadToBuffer, downloadToBlob) and cloneProject.                     *)
(*                                                                         *)
(* Strings are sequences of one-character strings, so that split, join,    *)
(* includes, startsWith and the regular expressions are computed           *)
(* character by character as the code computes them.                       *)
(***************************************************************************)
EXTENDS Integers, Sequences, FiniteSets, TLC

VARIABLES
    \* ---- URL parser (SpecUrl) ----
    url,            \* the argument of parseUrl
    parsed,         \* "pending", or the outcome of parseUrl(url)
    \* ---- path normalizer (SpecPath) ----
    rawPath,        \* a raw path key of appFiles
    sanitized,      \* what normalizePath and the per-entry code make of rawPath
    \* ---- one invocation of an entry point (Spec) ----
    entry,          \* the exported function that was called
    options,        \* its options bag
    pc,             \* where the invocation stands
    timer,          \* the deadline timer: "unset", "armed", "cleared", "fired"
    timersArmed,    \* how many times setTimeout was called
    requests,       \* how many times fetch was called
    remote,         \* what the remote does with the request ("unknown" until seen)
    idx,            \* index of the next entry of appFiles
    normalizedPath, \* the accepted entry between its size check and its write
    files,          \* downloadToResponse: the archive entry list
    totalSize,      \* the running byte total
    fileCount,      \* cloneProject: number of files written
    disk,           \* cloneProject: files under the output root, <<path, contents>>
    dirs,           \* cloneProject: directories created under the output root
    rootMade,       \* cloneProject: the output root was created
    zipWritten,     \* downloadToFile: the zip file was written
    outcome,        \* "none" while running, "ok", or the error thrown
    result,         \* what a successful invocation returned
    \* ---- the caller ----
    call,           \* 1 for the first invocation, 2 for a repeated one
    rerun,          \* "none", or how the second invocation differs from the first
    prev            \* what the first invocation left behind

urlVars == <<url, parsed>>
pathVars == <<rawPath, sanitized>>
invVars == <<entry, options, pc, timer, timersArmed, requests, remote, idx,
             normalizedPath, files, totalSize, fileCount, disk, dirs, rootMade,
             zipWritten, outcome, result, call, rerun, prev>>
vars == <<url, parsed, rawPath, sanitized, entry, options, pc, timer, timersArmed,
          requests, remote, idx, normalizedPath, files, totalSize, fileCount, disk,
          dirs, rootMade, zipWritten, outcome, result, call, rerun, prev>>

----------------------------------------------------------------------------
(* Bounds of the model. *)

\* Longest appFiles collection a remote response carries.
MaxEntries == 2
\* Most '/'-separated segments of a raw path given to the normalizer.
MaxSegs == 4
\* Most pieces a URL given to parseUrl is assembled from.
MaxPieces == 3

----------------------------------------------------------------------------
(* String primitives (ECMAScript String.prototype). *)

\* s.startsWith(p)
StartsWith(s, p) ==
    /\ Len(p) <= Len(s)
    /\ SubSeq(s, 1, Len(p)) = p

\* s.includes(sub)
Includes(s, sub) ==
    \E i \in 1..(Len(s) - Len(sub) + 1) : SubSeq(s, i, i + Len(sub) - 1) = sub

\* s.split(sep) for a one-character separator: always at least one piece.
RECURSIVE SplitFrom(_, _, _, _)
SplitFrom(s, sep, i, cur) ==
    IF i > Len(s) THEN <<cur>>
    ELSE IF s[i] = sep THEN <<cur>> \o SplitFrom(s, sep, i + 1, <<>>)
    ELSE SplitFrom(s, sep, i + 1, Append(cur, s[i]))

Split(s, sep) == SplitFrom(s, sep, 1, <<>>)

\* parts.join(sep)
RECURSIVE Join(_, _)
Join(parts, sep) ==
    IF Len(parts) = 0 THEN <<>>
    ELSE IF Len(parts) = 1 THEN parts[1]
    ELSE parts[1] \o <<sep>> \o Join(Tail(parts), sep)

\* Concatenation of a sequence of strings.
RECURSIVE Concat(_)
Concat(parts) ==
    IF Len(parts) = 0 THEN <<>> ELSE parts[1] \o Concat(Tail(parts))

\* All sequences over S of length lo..hi.
SeqsOf(S, lo, hi) == UNION {[1..n -> S] : n \in lo..hi}

----------------------------------------------------------------------------
(* parseUrl: url.match(/stackblitz\.com\/edit\/([^/?#]+)/)                 *)

\* The literal the regular expression starts with.
UrlMarker ==
    <<"s","t","a","c","k","b","l","i","t","z",".","c","o","m","/","e","d","i","t","/">>

\* The characters the capture group [^/?#] does not take.
UrlStop == {"/", "?", "#"}

\* Does the literal prefix of the regular expression match at position i?
MarkerAt(u, i) ==
    /\ i + Len(UrlMarker) - 1 <= Len(u)
    /\ SubSeq(u, i, i + Len(UrlMarker) - 1) = UrlMarker

\* The greedy run [^/?#]+ starting at position i (empty when it cannot start).
RECURSIVE Run(_, _)
Run(u, i) ==
    IF i > Len(u) \/ u[i] \in UrlStop THEN <<>>
    ELSE <<u[i]>> \o Run(u, i + 1)

\* The positions at which the whole regular expression matches.
MatchStarts(u) ==
    {i \in 1..Len(u) : MarkerAt(u, i) /\ Run(u, i + Len(UrlMarker)) # <<>>}

\* A mutant of parseUrl: the dot of the pattern is left unescaped, so any
\* character is taken where "stackblitz.com" has its dot.
ParseUrlUnescapedDot(u) ==
    LET n == Len(UrlMarker)
        at(i) == /\ i + n - 1 <= Len(u)
                 /\ \A k \in 1..n : k = 11 \/ u[i + k - 1] = UrlMarker[k]
        starts == {i \in 1..Len(u) : at(i) /\ Run(u, i + n) # <<>>} IN
    IF starts = {} THEN [ok |-> FALSE, id |-> <<>>]
    ELSE LET i == CHOOSE k \in starts : \A j \in starts : k <= j IN
         [ok |-> TRUE, id |-> Run(u, i + n)]

\* parseUrl(url): the capture group of the leftmost match, or the thrown
\* 'Invalid StackBlitz URL' error.
parseUrl(u) ==
    LET starts == MatchStarts(u) IN
    IF starts = {} THEN [ok |-> FALSE, id |-> <<>>]
    ELSE LET i == CHOOSE k \in starts : \A j \in starts : k <= j IN
         [ok |-> TRUE, id |-> Run(u, i + Len(UrlMarker))]

----------------------------------------------------------------------------
(* normalizePath and the per-entry path checks.                            *)

\* The loop of normalizePath over the filtered parts.
RECURSIVE NormalizeLoop(_, _, _)
NormalizeLoop(parts, i, normalized) ==
    IF i > Len(parts) THEN normalized
    ELSE IF parts[i] = <<".", ".">>
         THEN IF Len(normalized) > 0
              THEN NormalizeLoop(parts, i + 1, SubSeq(normalized, 1, Len(normalized) - 1))
              ELSE NormalizeLoop(parts, i + 1, normalized)
         ELSE NormalizeLoop(parts, i + 1, Append(normalized, parts[i]))

\* A mutant of normalizePath: a '..' with nothing to pop is kept.
NormalizePathKeepsEscape(path) ==
    LET parts == SelectSeq(Split(path, "/"), LAMBDA part : part # <<>> /\ part # <<".">>)
        F[i \in 0..Len(parts)] ==
            IF i = 0 THEN <<>>
            ELSE IF parts[i] = <<".", ".">> /\ Len(F[i - 1]) > 0
                      /\ F[i - 1][Len(F[i - 1])] # <<".", ".">>
                 THEN SubSeq(F[i - 1], 1, Len(F[i - 1]) - 1)
                 ELSE Append(F[i - 1], parts[i])
    IN Join(F[Len(parts)], "/")

\* A mutant of normalizePath: a '..' removes the segment before it only when
\* that segment stands right before it in the input; any other '..' is kept.
NormalizePathOneLevel(path) ==
    LET parts == SelectSeq(Split(path, "/"), LAMBDA part : part # <<>> /\ part # <<".">>)
        F[i \in 0..Len(parts)] ==
            IF i = 0 THEN <<>>
            ELSE IF parts[i] = <<".", ".">> /\ i > 1 /\ parts[i - 1] # <<".", ".">>
                      /\ Len(F[i - 1]) > 0
                 THEN SubSeq(F[i - 1], 1, Len(F[i - 1]) - 1)
                 ELSE Append(F[i - 1], parts[i])
    IN Join(F[Len(parts)], "/")

\* normalizePath(path)
normalizePath(path) ==
    LET parts == SelectSeq(Split(path, "/"), LAMBDA part : part # <<>> /\ part # <<".">>)
    IN Join(NormalizeLoop(parts, 1, <<>>), "/")

NodeModulesSlash == <<"n","o","d","e","_","m","o","d","u","l","e","s","/">>
DotGitSlash == <<".","g","i","t","/">>

\* A mutant of Excluded: only node_modules is excluded.
ExcludedNodeModulesOnly(filePath) == Includes(filePath, NodeModulesSlash)

\* filePath.includes('node_modules/') || filePath.includes('.git/')
Excluded(filePath) ==
    Includes(filePath, NodeModulesSlash) \/ Includes(filePath, DotGitSlash)

\* A mutant of Suspicious: the empty result is let through.
SuspiciousAllowsEmpty(np) ==
    StartsWith(np, <<"/">>) \/ Includes(np, <<".", ".">>)

\* !normalizedPath || normalizedPath.startsWith('/') || normalizedPath.includes('..')
Suspicious(np) ==
    np = <<>> \/ StartsWith(np, <<"/">>) \/ Includes(np, <<".", ".">>)

----------------------------------------------------------------------------
(* The inputs of an invocation.                                            *)

\* The characters \w matches: letters, digits and the underscore.
WordChars ==
    {"a","b","c","d","e","f","g","h","i","j","k","l","m","n","o","p","q","r","s",
     "t","u","v","w","x","y","z","A","B","C","D","E","F","G","H","I","J","K","L",
     "M","N","O","P","Q","R","S","T","U","V","W","X","Y","Z","0","1","2","3","4",
     "5","6","7","8","9","_"}

\* A mutant of ValidId: the pattern without its anchors, /[\w-]+/.
ValidIdUnanchored(id) ==
    \E i \in 1..Len(id) : id[i] \in WordChars \cup {"-"}

\* /^[\w-]+$/.test(projectId)
ValidId(id) ==
    /\ Len(id) >= 1
    /\ \A i \in 1..Len(id) : id[i] \in WordChars \cup {"-"}

\* The project identifiers a caller passes.
ProjectIds ==
    { <<"k","7","_","-","Z">>,          \* k7_-Z
      <<>>,                             \* the empty string
      <<"a","/","b">>,                  \* a/b
      <<".",".">>,                      \* ..
      <<"a","?","x">>,                  \* a?x
      <<"a"," ">>,                      \* trailing blank
      <<"a","\n">>,                     \* trailing line feed
      <<"#","a">> }                     \* #a

DefaultMaxFileSize == 10485760
DefaultMaxTotalSize == 104857600

\* The size limits a caller passes; a limit left out takes its default.
LimitChoices ==
    { [maxFileSize |-> 1, maxTotalSize |-> 1],
      [maxTotalSize |-> 4],
      [verbose |-> FALSE] }

OptionChoices == {[projectId |-> p] @@ l : p \in ProjectIds, l \in LimitChoices}

\* Destructuring with defaults (lines 41-47 and 229-236).
MaxFileSizeOf(o) ==
    IF "maxFileSize" \in DOMAIN o THEN o.maxFileSize ELSE DefaultMaxFileSize
MaxTotalSizeOf(o) ==
    IF "maxTotalSize" \in DOMAIN o THEN o.maxTotalSize ELSE DefaultMaxTotalSize

EntryPoints ==
    {"downloadToResponse", "downloadToFile", "downloadToBuffer", "downloadToBlob",
     "cloneProject"}

\* The raw path keys of appFiles.
RawPaths ==
    { <<"a">>,
      <<"a","/","b">>,
      <<".",".","/","a">>,
      <<"n","o","d","e","_","m","o","d","u","l","e","s","/","a">>,
      <<"x",".","g","i","t","/","a">>,
      <<".",".">>,
      <<"a",".",".","b">> }

\* File contents, as UTF-16 code units: "a" (one byte in UTF-8) and an emoji
\* (a surrogate pair, four bytes).
Contents == { <<97>>, <<55357, 56832>> }

\* The keys under which the remote lists a directory, and what such an entry
\* carries as contents ("e with acute", two bytes).
DirectoryPaths == { <<"a">> }
DirectoryContents == <<233>>

\* One appFiles entry: its key, and the type and contents of its value.
Entries ==
    {[path |-> p, type |-> "file", contents |-> c] : p \in RawPaths, c \in Contents}
    \cup {[path |-> p, type |-> "directory", contents |-> DirectoryContents] :
             p \in DirectoryPaths}

\* An appFiles object in iteration order: its keys are distinct.
Trees ==
    {t \in SeqsOf(Entries, 0, MaxEntries) :
        \A i, j \in 1..Len(t) : i # j => t[i].path # t[j].path}

\* What the remote does with the request: it does not answer in time, the
\* connection fails, it answers with a status that is not ok, with a body that
\* is not JSON, with the JSON body null, with a body without project, with a
\* project without appFiles, or with a project that has appFiles; or it sends
\* its headers in time and the body after the deadline ("latebody": late, yet
\* soon enough for the runtime to read it), or never, or later than the
\* runtime waits for a body ("stalled").
RemoteKinds ==
    {"slow", "netfail", "notok", "badjson", "nullbody", "noproject", "noappfiles",
     "tree", "latebody", "stalled"}
Remote(kind, tree) == [kind |-> kind, tree |-> tree]
UnknownRemote == Remote("unknown", <<>>)

\* The appFiles of a body that arrives after the deadline.
LateBodyTrees == {t \in Trees : Len(t) <= 1}

\* new TextEncoder().encode(contents).length: the UTF-8 length of a string
\* of UTF-16 code units; an unpaired surrogate is encoded as U+FFFD.
IsHigh(u) == u >= 55296 /\ u <= 56319
IsLow(u) == u >= 56320 /\ u <= 57343
RECURSIVE ByteLengthFrom(_, _)
ByteLengthFrom(c, i) ==
    IF i > Len(c) THEN 0
    ELSE IF IsHigh(c[i]) /\ i < Len(c) /\ IsLow(c[i + 1])
         THEN 4 + ByteLengthFrom(c, i + 2)
    ELSE IF IsHigh(c[i]) \/ IsLow(c[i]) THEN 3 + ByteLengthFrom(c, i + 1)
    ELSE IF c[i] < 128 THEN 1 + ByteLengthFrom(c, i + 1)
    ELSE IF c[i] < 2048 THEN 2 + ByteLengthFrom(c, i + 1)
    ELSE 3 + ByteLengthFrom(c, i + 1)

\* A mutant of ByteLength: the string's length in code units.
ByteLengthCountsUnits(c) == Len(c)

ByteLength(c) == ByteLengthFrom(c, 1)

----------------------------------------------------------------------------
(* The loop bodies: what one iteration decides before anything is emitted. *)

Skip(total) == [kind |-> "skip", name |-> <<>>, total |-> total]

\* A mutant of ZipCheck: the type test comes after the size accounting, so a
\* directory entry's contents count.
ZipCheckCountsDirectories(e, total, o) ==
    IF Excluded(e.path) THEN Skip(total)
    ELSE LET np == normalizePath(e.path)
             fileSize == ByteLength(e.contents) IN
         IF Suspicious(np) THEN Skip(total)
         ELSE IF fileSize > MaxFileSizeOf(o)
              THEN [kind |-> "FileTooLarge", name |-> np, total |-> total]
         ELSE IF total + fileSize > MaxTotalSizeOf(o)
              THEN [kind |-> "TotalSizeExceeded", name |-> np, total |-> total + fileSize]
         ELSE IF e.type # "file" THEN Skip(total + fileSize)
         ELSE [kind |-> "accept", name |-> np, total |-> total + fileSize]

\* downloadToResponse, lines 85-116: skip, throw, or accept under a name with
\* the running total updated.
ZipCheck(e, total, o) ==
    IF Excluded(e.path) THEN Skip(total)
    ELSE IF e.type # "file" THEN Skip(total)
    ELSE LET np == normalizePath(e.path)
             fileSize == ByteLength(e.contents) IN
         IF Suspicious(np) THEN Skip(total)
         ELSE IF fileSize > MaxFileSizeOf(o)
              THEN [kind |-> "FileTooLarge", name |-> np, total |-> total]
         ELSE IF total + fileSize > MaxTotalSizeOf(o)
              THEN [kind |-> "TotalSizeExceeded", name |-> np, total |-> total + fileSize]
         ELSE [kind |-> "accept", name |-> np, total |-> total + fileSize]

\* A mutant of CloneCheck: the cumulative limit is compared with >=.
CloneCheckTotalAtLimit(e, total, o) ==
    IF Excluded(e.path) THEN Skip(total)
    ELSE IF e.type # "file" THEN Skip(total)
    ELSE LET np == normalizePath(e.path)
             fileSize == ByteLength(e.contents) IN
         IF Suspicious(np) THEN Skip(total)
         ELSE IF fileSize > MaxFileSizeOf(o)
              THEN [kind |-> "FileTooLarge", name |-> np, total |-> total]
         ELSE IF total + fileSize >= MaxTotalSizeOf(o)
              THEN [kind |-> "TotalSizeExceeded", name |-> np, total |-> total + fileSize]
         ELSE [kind |-> "accept", name |-> np, total |-> total + fileSize]

\* A mutant of CloneCheck: the cumulative limit is tested before the entry's
\* bytes are added to the running total.
CloneCheckTotalBeforeAdd(e, total, o) ==
    IF Excluded(e.path) THEN Skip(total)
    ELSE IF e.type # "file" THEN Skip(total)
    ELSE LET np == normalizePath(e.path)
             fileSize == ByteLength(e.contents) IN
         IF Suspicious(np) THEN Skip(total)
         ELSE IF fileSize > MaxFileSizeOf(o)
              THEN [kind |-> "FileTooLarge", name |-> np, total |-> total]
         ELSE IF total > MaxTotalSizeOf(o)
              THEN [kind |-> "TotalSizeExceeded", name |-> np, total |-> total + fileSize]
         ELSE [kind |-> "accept", name |-> np, total |-> total + fileSize]

\* cloneProject, lines 285-316: the same decisions, in its own copy of the loop.
CloneCheck(e, total, o) ==
    IF Excluded(e.path) THEN Skip(total)
    ELSE IF e.type # "file" THEN Skip(total)
    ELSE LET np == normalizePath(e.path)
             fileSize == ByteLength(e.contents) IN
         IF Suspicious(np) THEN Skip(total)
         ELSE IF fileSize > MaxFileSizeOf(o)
              THEN [kind |-> "FileTooLarge", name |-> np, total |-> total]
         ELSE IF total + fileSize > MaxTotalSizeOf(o)
              THEN [kind |-> "TotalSizeExceeded", name |-> np, total |-> total + fileSize]
         ELSE [kind |-> "accept", name |-> np, total |-> total + fileSize]

----------------------------------------------------------------------------
(* The filesystem under cloneProject's output root (node:fs/promises).     *)

\* dirname(join(finalOutputPath, normalizedPath)), relative to the root, as
\* the list of its segments; the root itself is the empty list.
ParentSegs(np) ==
    LET segs == Split(np, "/") IN SubSeq(segs, 1, Len(segs) - 1)

\* The directories mkdir(fileDir, {recursive: true}) has to find or create.
Ancestors(np) ==
    LET ps == ParentSegs(np) IN {Join(SubSeq(ps, 1, k), "/") : k \in 1..Len(ps)}

\* The paths of the regular files on disk.
FilePaths(d) == {f[1] : f \in d}

\* mkdir -p fails when a regular file stands where a directory is needed.
MkdirFails(np, d) == Ancestors(np) \cap FilePaths(d) # {}

\* writeFile fails when the target is a directory.
WriteFails(np, ds) == np \in ds

\* writeFile(path, contents): creates the file or replaces its contents.
Written(d, np, contents) == {f \in d : f[1] # np} \cup {<<np, contents>>}

----------------------------------------------------------------------------
(* The catch blocks (lines 127-133 and 340-346).                           *)

\* A mutant of ClearTimeout: the call is missing, the timer stays as it is.
ClearTimeoutMissing(t) == t

\* clearTimeout(timeoutId): disarms a pending timer, no effect otherwise.
ClearTimeout(t) == IF t = "armed" THEN "cleared" ELSE t

\* An AbortError is rethrown as the timeout error, anything else as itself.
Rethrown(error) == IF error = "AbortError" THEN "RequestTimeout" ELSE error

----------------------------------------------------------------------------
(* State shared by the three specifications.                               *)

NotParsed == [state |-> "pending", ok |-> FALSE, id |-> <<>>]
NotSanitized ==
    [state |-> "pending", normalized |-> <<>>, again |-> <<>>,
     zip |-> Skip(0), clone |-> Skip(0)]
NoPrev ==
    [entry |-> "none", outcome |-> "none", files |-> <<>>, totalSize |-> 0,
     disk |-> {}, tree |-> <<>>]

\* No URL is being parsed.
UrlIdle == url = <<>> /\ parsed = NotParsed
\* No path is being normalized.
PathIdle == rawPath = <<>> /\ sanitized = NotSanitized

\* The state of an invocation that has just been called.
Fresh ==
    /\ pc = "start"
    /\ timer = "unset"
    /\ timersArmed = 0
    /\ requests = 0
    /\ idx = 0
    /\ normalizedPath = <<>>
    /\ files = <<>>
    /\ totalSize = 0
    /\ fileCount = 0
    /\ disk = {}
    /\ dirs = {}
    /\ rootMade = FALSE
    /\ zipWritten = FALSE
    /\ outcome = "none"
    /\ result = "none"

\* No entry point is called.
InvIdle ==
    /\ entry = "none"
    /\ options = [projectId |-> <<>>]
    /\ Fresh
    /\ remote = UnknownRemote
    /\ call = 1
    /\ rerun = "none"
    /\ prev = NoPrev

appFiles == remote.tree
IsZip == entry # "cloneProject"

----------------------------------------------------------------------------
(* One invocation of an entry point.                                       *)

Init ==
    /\ UrlIdle
    /\ PathIdle
    /\ entry \in EntryPoints
    /\ options \in OptionChoices
    /\ Fresh
    /\ remote = UnknownRemote
    /\ call = 1
    /\ rerun = "none"
    /\ prev = NoPrev

\* Lines 49-51 and 238-240: the identifier test, made before the try block.
Validate ==
    /\ pc = "start"
    /\ IF ValidId(options.projectId)
       THEN pc' = "arm" /\ outcome' = outcome
       ELSE pc' = "done" /\ outcome' = "InvalidProjectId"
    /\ UNCHANGED <<urlVars, pathVars, entry, options, timer, timersArmed, requests,
                   remote, idx, normalizedPath, files, totalSize, fileCount, disk,
                   dirs, rootMade, zipWritten, result, call, rerun, prev>>

\* Lines 59-60 and 256-257: setTimeout(() => controller.abort(), timeout).
ArmTimer ==
    /\ pc = "arm"
    /\ timer' = "armed"
    /\ timersArmed' = timersArmed + 1
    /\ pc' = "fetch"
    /\ UNCHANGED <<urlVars, pathVars, entry, options, requests, remote, idx,
                   normalizedPath, files, totalSize, fileCount, disk, dirs, rootMade,
                   zipWritten, outcome, result, call, rerun, prev>>

\* Lines 63 and 260: fetch(url, { signal }) is called and awaited.
IssueFetch ==
    /\ pc = "fetch"
    /\ requests' = requests + 1
    /\ pc' = "awaitFetch"
    /\ UNCHANGED <<urlVars, pathVars, entry, options, timer, timersArmed, remote, idx,
                   normalizedPath, files, totalSize, fileCount, disk, dirs, rootMade,
                   zipWritten, outcome, result, call, rerun, prev>>

\* Where the invocation is suspended in an await or has ended, so that the
\* event loop may run a timer callback.
Suspended == {"awaitFetch", "awaitJson", "mkdirRoot", "mkdir", "write", "wrap", "done"}

\* Line 60 (257): the deadline passes with the timer still armed and
\* controller.abort() runs. With the fetch pending (the remote has not
\* answered), fetch rejects with an AbortError and the catch block runs; with
\* the body being read and not there by the deadline, response.json() rejects
\* the same way; anywhere else nothing listens to the signal any more.
TimerFires ==
    /\ timer = "armed"
    /\ pc \in Suspended
    /\ pc = "awaitFetch" => remote.kind \in {"unknown", "slow"}
    /\ pc = "awaitJson" => remote.kind \in {"latebody", "stalled"}
    /\ IF pc = "awaitFetch"
       THEN /\ remote' = Remote("slow", <<>>)
            /\ timer' = ClearTimeout("fired")
            /\ outcome' = Rethrown("AbortError")
            /\ pc' = "done"
       ELSE IF pc = "awaitJson"
       THEN /\ remote' = remote
            /\ timer' = ClearTimeout("fired")
            /\ outcome' = Rethrown("AbortError")
            /\ pc' = "done"
       ELSE /\ timer' = "fired"
            /\ UNCHANGED <<remote, outcome, pc>>
    /\ UNCHANGED <<urlVars, pathVars, entry, options, timersArmed, requests, idx,
                   normalizedPath, files, totalSize, fileCount, disk, dirs, rootMade,
                   zipWritten, result, call, rerun, prev>>

\* The fetch rejects with a network-level failure before the deadline.
FetchRejects ==
    /\ pc = "awaitFetch"
    /\ remote.kind \in {"unknown", "netfail"}
    /\ remote' = Remote("netfail", <<>>)
    /\ timer' = ClearTimeout(timer)
    /\ outcome' = Rethrown("NetworkError")
    /\ pc' = "done"
    /\ UNCHANGED <<urlVars, pathVars, entry, options, timersArmed, requests, idx,
                   normalizedPath, files, totalSize, fileCount, disk, dirs, rootMade,
                   zipWritten, result, call, rerun, prev>>

\* What a remote that answers in time may answer.
Responses ==
    {Remote(k, <<>>) : k \in {"notok", "badjson", "nullbody", "noproject", "noappfiles"}}
    \cup {Remote("tree", t) : t \in Trees}
    \cup {Remote("latebody", t) : t \in LateBodyTrees}
    \cup {Remote("stalled", <<>>)}

\* Lines 63-68 and 260-265: the fetch resolves, the timer is cleared, and a
\* response that is not ok is thrown.
FetchResolves ==
    /\ pc = "awaitFetch"
    /\ \E r \in (IF remote = UnknownRemote THEN Responses ELSE {remote} \cap Responses) :
        /\ remote' = r
        /\ IF r.kind = "notok"
           THEN /\ timer' = ClearTimeout(ClearTimeout(timer))
                /\ outcome' = Rethrown("FetchFailed")
                /\ pc' = "done"
           ELSE /\ timer' = ClearTimeout(timer)
                /\ outcome' = outcome
                /\ pc' = "awaitJson"
    /\ UNCHANGED <<urlVars, pathVars, entry, options, timersArmed, requests, idx,
                   normalizedPath, files, totalSize, fileCount, disk, dirs, rootMade,
                   zipWritten, result, call, rerun, prev>>

\* Lines 70-82 and 267-279: response.json() settles; a body that cannot be
\* parsed is rethrown, the body null cannot be destructured and the TypeError
\* is rethrown, a body without project or project.appFiles is the
\* 'No files found' error, anything else starts the loop. The timer does not
\* bound the wait: a body that comes after the deadline is read like one that
\* comes before it. With a body that does not come, the promise settles only
\* if the runtime gives up the read (node rejects it with TypeError
\* 'terminated' when its own body timeout passes), and the catch block
\* rethrows that error; until then the invocation stays suspended.
JsonSettles ==
    /\ pc = "awaitJson"
    /\ IF remote.kind = "stalled"
       THEN /\ outcome' = Rethrown("Terminated")
            /\ timer' = ClearTimeout(timer)
            /\ pc' = "done"
            /\ idx' = idx
       ELSE IF remote.kind = "badjson"
       THEN /\ outcome' = Rethrown("BodyError")
            /\ timer' = ClearTimeout(timer)
            /\ pc' = "done"
            /\ idx' = idx
       ELSE IF remote.kind = "nullbody"
       THEN /\ outcome' = Rethrown("TypeError")
            /\ timer' = ClearTimeout(timer)
            /\ pc' = "done"
            /\ idx' = idx
       ELSE IF remote.kind \in {"noproject", "noappfiles"}
       THEN /\ outcome' = Rethrown("NoFilesFound")
            /\ timer' = ClearTimeout(timer)
            /\ pc' = "done"
            /\ idx' = idx
       ELSE /\ outcome' = outcome
            /\ timer' = timer
            /\ idx' = 1
            /\ pc' = IF IsZip THEN "loop" ELSE "mkdirRoot"
    /\ files' = <<>>
    /\ totalSize' = 0
    /\ fileCount' = 0
    /\ UNCHANGED <<urlVars, pathVars, entry, options, timersArmed, requests, remote,
                   normalizedPath, disk, dirs, rootMade, zipWritten, result,
                   call, rerun, prev>>

----------------------------------------------------------------------------
(* downloadToResponse: the loop over appFiles, and the wrappers.           *)

\* Lines 85-123: one iteration.
ZipEntry ==
    /\ pc = "loop"
    /\ IsZip
    /\ idx <= Len(appFiles)
    /\ LET d == ZipCheck(appFiles[idx], totalSize, options) IN
        /\ totalSize' = d.total
        /\ IF d.kind = "skip"
           THEN /\ idx' = idx + 1
                /\ UNCHANGED <<pc, files, outcome, timer>>
           ELSE IF d.kind = "accept"
           THEN /\ files' = Append(files, [name |-> d.name, input |-> appFiles[idx].contents])
                /\ idx' = idx + 1
                /\ UNCHANGED <<pc, outcome, timer>>
           ELSE /\ outcome' = Rethrown(d.kind)
                /\ timer' = ClearTimeout(timer)
                /\ pc' = "done"
                /\ UNCHANGED <<idx, files>>
    /\ UNCHANGED <<urlVars, pathVars, entry, options, timersArmed, requests, remote,
                   normalizedPath, fileCount, disk, dirs, rootMade, zipWritten,
                   result, call, rerun, prev>>

\* Line 125: return downloadZip(files); a wrapper goes on with the response.
ZipReturn ==
    /\ pc = "loop"
    /\ IsZip
    /\ idx > Len(appFiles)
    /\ IF entry = "downloadToResponse"
       THEN pc' = "done" /\ outcome' = "ok" /\ result' = "Response"
       ELSE pc' = "wrap" /\ outcome' = outcome /\ result' = result
    /\ UNCHANGED <<urlVars, pathVars, entry, options, timer, timersArmed, requests,
                   remote, idx, normalizedPath, files, totalSize, fileCount, disk, dirs,
                   rootMade, zipWritten, call, rerun, prev>>

\* downloadToFile, lines 179-200: the archive is written to the output path,
\* which is taken to be writable.
ToFile ==
    /\ pc = "wrap"
    /\ entry = "downloadToFile"
    /\ zipWritten' = TRUE
    /\ pc' = "done"
    /\ outcome' = "ok"
    /\ result' = "path"
    /\ UNCHANGED <<urlVars, pathVars, entry, options, timer, timersArmed, requests,
                   remote, idx, normalizedPath, files, totalSize, fileCount, disk, dirs,
                   rootMade, call, rerun, prev>>

\* downloadToBuffer, lines 355-359.
ToBuffer ==
    /\ pc = "wrap"
    /\ entry = "downloadToBuffer"
    /\ pc' = "done"
    /\ outcome' = "ok"
    /\ result' = "ArrayBuffer"
    /\ UNCHANGED <<urlVars, pathVars, entry, options, timer, timersArmed, requests,
                   remote, idx, normalizedPath, files, totalSize, fileCount, disk, dirs,
                   rootMade, zipWritten, call, rerun, prev>>

\* downloadToBlob, lines 367-370.
ToBlob ==
    /\ pc = "wrap"
    /\ entry = "downloadToBlob"
    /\ pc' = "done"
    /\ outcome' = "ok"
    /\ result' = "Blob"
    /\ UNCHANGED <<urlVars, pathVars, entry, options, timer, timersArmed, requests,
                   remote, idx, normalizedPath, files, totalSize, fileCount, disk, dirs,
                   rootMade, zipWritten, call, rerun, prev>>

----------------------------------------------------------------------------
(* cloneProject: the output root, the loop over appFiles, the writes.      *)

\* Line 282: mkdir(finalOutputPath, { recursive: true }); the output root is
\* taken to be absent or an empty directory, so this succeeds.
MkdirRoot ==
    /\ pc = "mkdirRoot"
    /\ rootMade' = TRUE
    /\ pc' = "loop"
    /\ UNCHANGED <<urlVars, pathVars, entry, options, timer, timersArmed, requests,
                   remote, idx, normalizedPath, files, totalSize, fileCount, disk, dirs,
                   zipWritten, outcome, result, call, rerun, prev>>

\* Lines 285-316: one iteration up to the size checks.
CloneEntry ==
    /\ pc = "loop"
    /\ ~IsZip
    /\ idx <= Len(appFiles)
    /\ LET d == CloneCheck(appFiles[idx], totalSize, options) IN
        /\ totalSize' = d.total
        /\ IF d.kind = "skip"
           THEN /\ idx' = idx + 1
                /\ UNCHANGED <<pc, normalizedPath, outcome, timer>>
           ELSE IF d.kind = "accept"
           THEN /\ normalizedPath' = d.name
                /\ pc' = "mkdir"
                /\ UNCHANGED <<idx, outcome, timer>>
           ELSE /\ outcome' = Rethrown(d.kind)
                /\ timer' = ClearTimeout(timer)
                /\ pc' = "done"
                /\ UNCHANGED <<idx, normalizedPath>>
    /\ UNCHANGED <<urlVars, pathVars, entry, options, timersArmed, requests, remote,
                   files, fileCount, disk, dirs, rootMade, zipWritten, result,
                   call, rerun, prev>>

\* Lines 319-321: mkdir(dirname(fullFilePath), { recursive: true }).
CloneMkdir ==
    /\ pc = "mkdir"
    /\ IF MkdirFails(normalizedPath, disk)
       THEN /\ outcome' = Rethrown("IOError")
            /\ timer' = ClearTimeout(timer)
            /\ pc' = "done"
            /\ dirs' = dirs
       ELSE /\ dirs' = dirs \cup Ancestors(normalizedPath)
            /\ pc' = "write"
            /\ UNCHANGED <<outcome, timer>>
    /\ UNCHANGED <<urlVars, pathVars, entry, options, timersArmed, requests, remote,
                   idx, normalizedPath, files, totalSize, fileCount, disk, rootMade,
                   zipWritten, result, call, rerun, prev>>

\* Lines 324-325: writeFile(fullFilePath, contents, 'utf-8'); fileCount++.
CloneWrite ==
    /\ pc = "write"
    /\ IF WriteFails(normalizedPath, dirs)
       THEN /\ outcome' = Rethrown("IOError")
            /\ timer' = ClearTimeout(timer)
            /\ pc' = "done"
            /\ UNCHANGED <<disk, fileCount, idx>>
       ELSE /\ disk' = Written(disk, normalizedPath, appFiles[idx].contents)
            /\ fileCount' = fileCount + 1
            /\ idx' = idx + 1
            /\ pc' = "loop"
            /\ UNCHANGED <<outcome, timer>>
    /\ UNCHANGED <<urlVars, pathVars, entry, options, timersArmed, requests, remote,
                   normalizedPath, files, totalSize, dirs, rootMade, zipWritten, result, call, rerun, prev>>

\* Line 338: return finalOutputPath.
CloneReturn ==
    /\ pc = "loop"
    /\ ~IsZip
    /\ idx > Len(appFiles)
    /\ pc' = "done"
    /\ outcome' = "ok"
    /\ result' = "path"
    /\ UNCHANGED <<urlVars, pathVars, entry, options, timer, timersArmed, requests,
                   remote, idx, normalizedPath, files, totalSize, fileCount, disk, dirs,
                   rootMade, zipWritten, call, rerun, prev>>

----------------------------------------------------------------------------
(* The caller: a second invocation against the same remote.                *)

\* What the finished invocation leaves for comparison.
Snapshot ==
    [entry |-> entry, outcome |-> outcome, files |-> files, totalSize |-> totalSize,
     disk |-> disk, tree |-> appFiles]

\* The next invocation starts from scratch, with an empty output root.
Restart ==
    /\ pc' = "start"
    /\ timer' = "unset"
    /\ timersArmed' = 0
    /\ requests' = 0
    /\ idx' = 0
    /\ normalizedPath' = <<>>
    /\ files' = <<>>
    /\ totalSize' = 0
    /\ fileCount' = 0
    /\ disk' = {}
    /\ dirs' = {}
    /\ rootMade' = FALSE
    /\ zipWritten' = FALSE
    /\ outcome' = "none"
    /\ result' = "none"

\* An entry that every loop skips: excluded by its raw path, not a file, or
\* rejected after normalization.
IsSkipped(e) ==
    Excluded(e.path) \/ e.type # "file" \/ Suspicious(normalizePath(e.path))

\* The tree without its skipped entries.
Stripped(t) == SelectSeq(t, LAMBDA e : ~IsSkipped(e))

\* After downloadToResponse, cloneProject is called with the same options
\* against the same remote.
RerunClone ==
    /\ pc = "done"
    /\ call = 1
    /\ entry = "downloadToResponse"
    /\ prev' = Snapshot
    /\ entry' = "cloneProject"
    /\ call' = 2
    /\ rerun' = "clone"
    /\ Restart
    /\ UNCHANGED <<urlVars, pathVars, options, remote>>

\* The same entry point is called again, the remote now answering with the
\* same tree less its skipped entries.
RerunStripped ==
    /\ pc = "done"
    /\ call = 1
    /\ entry \in {"downloadToResponse", "cloneProject"}
    /\ remote.kind = "tree"
    /\ Stripped(appFiles) # appFiles
    /\ prev' = Snapshot
    /\ remote' = Remote("tree", Stripped(appFiles))
    /\ call' = 2
    /\ rerun' = "stripped"
    /\ Restart
    /\ UNCHANGED <<urlVars, pathVars, entry, options>>

Next ==
    \/ Validate
    \/ ArmTimer
    \/ IssueFetch
    \/ TimerFires
    \/ FetchRejects
    \/ FetchResolves
    \/ JsonSettles
    \/ ZipEntry
    \/ ZipReturn
    \/ ToFile
    \/ ToBuffer
    \/ ToBlob
    \/ MkdirRoot
    \/ CloneEntry
    \/ CloneMkdir
    \/ CloneWrite
    \/ CloneReturn
    \/ RerunClone
    \/ RerunStripped

Spec == Init /\ [][Next]_vars

----------------------------------------------------------------------------
(* parseUrl applied to bounded URLs.                                       *)

UrlPieces ==
    { <<"h","t","t","p","s",":","/","/">>,
      UrlMarker,
      <<"s","t","a","c","k","b","l","i","t","z","X","c","o","m","/","e","d","i","t","/">>,
      <<"e","x",".","c","o","m","/","e","d","i","t","/">>,
      <<"a","b">>,
      <<"k","-","7">>,
      <<"/">>,
      <<"?">>,
      <<"#">> }

Urls == {Concat(ps) : ps \in SeqsOf(UrlPieces, 0, MaxPieces)}

InitUrl ==
    /\ url \in Urls
    /\ parsed = NotParsed
    /\ PathIdle
    /\ InvIdle

\* parseUrl(url) is called.
ParseUrl ==
    /\ parsed.state = "pending"
    /\ LET r == parseUrl(url) IN
        parsed' = [state |-> IF r.ok THEN "returned" ELSE "thrown", ok |-> r.ok, id |-> r.id]
    /\ UNCHANGED <<url, pathVars, invVars>>

NextUrl == ParseUrl

SpecUrl == InitUrl /\ [][NextUrl]_vars

----------------------------------------------------------------------------
(* normalizePath and the loop bodies applied to bounded raw paths.         *)

PathSegments ==
    { <<>>,
      <<".">>,
      <<".",".">>,
      <<"a">>,
      <<"b">>,
      <<"e","t","c">>,
      <<"p","a","s","s","w","d">>,
      <<"e","s","c","a","p","e",".","t","x","t">>,
      <<"a",".",".","b">> }

\* Raw paths: one to MaxSegs segments joined by '/'.
PathInputs == {Join(segs, "/") : segs \in SeqsOf(PathSegments, 1, MaxSegs)}

InitPath ==
    /\ rawPath \in PathInputs
    /\ sanitized = NotSanitized
    /\ UrlIdle
    /\ InvIdle

\* A file entry keyed by rawPath goes through normalizePath and through the
\* loop body of each sink.
SanitizePath ==
    /\ sanitized.state = "pending"
    /\ LET e == [path |-> rawPath, type |-> "file", contents |-> <<97>>] IN
        sanitized' = [state |-> "done",
                      normalized |-> normalizePath(rawPath),
                      again |-> <<>>,
                      zip |-> ZipCheck(e, 0, options),
                      clone |-> CloneCheck(e, 0, options)]
    /\ UNCHANGED <<rawPath, urlVars, invVars>>

\* normalizePath is called on what normalizePath returned.
NormalizeAgain ==
    /\ sanitized.state = "done"
    /\ sanitized' = [sanitized EXCEPT !.state = "again",
                                      !.again = normalizePath(sanitized.normalized)]
    /\ UNCHANGED <<rawPath, urlVars, invVars>>

NextPath ==
    \/ SanitizePath
    \/ NormalizeAgain

SpecPath == InitPath /\ [][NextPath]_vars

----------------------------------------------------------------------------
(* Vocabulary of the properties.                                           *)

Done == pc = "done"
Running == entry \in EntryPoints
SizeErrors == {"FileTooLarge", "TotalSizeExceeded"}

\* ^[A-Za-z0-9_-]+$
Lower == {"a","b","c","d","e","f","g","h","i","j","k","l","m","n","o","p","q","r","s",
          "t","u","v","w","x","y","z"}
Upper == {"A","B","C","D","E","F","G","H","I","J","K","L","M","N","O","P","Q","R","S",
          "T","U","V","W","X","Y","Z"}
Digit == {"0","1","2","3","4","5","6","7","8","9"}
MatchesIdPattern(id) ==
    /\ id # <<>>
    /\ {id[i] : i \in 1..Len(id)} \subseteq Lower \cup Upper \cup Digit \cup {"_", "-"}

\* Every name handed to a sink so far: archive entry names, the files and
\* directories under the output root, and the name about to be written.
EmittedNames ==
    {files[i].name : i \in 1..Len(files)} \cup FilePaths(disk) \cup dirs
    \cup (IF pc \in {"mkdir", "write"} THEN {normalizedPath} ELSE {})

\* A relative name that stays under the root it is joined to.
SafeName(n) ==
    /\ n # <<>>
    /\ n[1] # "/"
    /\ \A k \in 1..Len(Split(n, "/")) : Split(n, "/")[k] # <<".", ".">>

\* The entries the loop has gone past.
Passed == 1..(IF idx - 1 < Len(appFiles) THEN idx - 1 ELSE Len(appFiles))

\* The UTF-8 size of a string of UTF-16 code units, unit by unit: a surrogate
\* that is half of a pair stands for two of the pair's four bytes, an unpaired
\* one for the three bytes of U+FFFD.
UnitBytes(c, i) ==
    IF c[i] < 128 THEN 1
    ELSE IF c[i] < 2048 THEN 2
    ELSE IF c[i] >= 55296 /\ c[i] <= 56319 /\ i < Len(c)
            /\ c[i + 1] >= 56320 /\ c[i + 1] <= 57343 THEN 2
    ELSE IF c[i] >= 56320 /\ c[i] <= 57343 /\ i > 1
            /\ c[i - 1] >= 55296 /\ c[i - 1] <= 56319 THEN 2
    ELSE 3
RECURSIVE Utf8Upto(_, _)
Utf8Upto(c, n) == IF n = 0 THEN 0 ELSE Utf8Upto(c, n - 1) + UnitBytes(c, n)
Utf8Size(c) == Utf8Upto(c, Len(c))

\* The indices of the entries of a tree that are not skipped.
AcceptedAt(t) == {i \in 1..Len(t) : ~IsSkipped(t[i])}

\* The bytes of the accepted entries up to and including index n.
RECURSIVE AcceptedBytes(_, _)
AcceptedBytes(t, n) ==
    IF n = 0 THEN 0
    ELSE AcceptedBytes(t, n - 1)
         + (IF n \in AcceptedAt(t) THEN Utf8Size(t[n].contents) ELSE 0)

\* Where the Size Guard stops on a tree, and with what.
TooLargeAt(t, o) == {i \in AcceptedAt(t) : Utf8Size(t[i].contents) > MaxFileSizeOf(o)}
OverTotalAt(t, o) == {i \in AcceptedAt(t) : AcceptedBytes(t, i) > MaxTotalSizeOf(o)}
FirstSizeError(t, o) ==
    LET bad == TooLargeAt(t, o) \cup OverTotalAt(t, o) IN
    IF bad = {} THEN Len(t) + 1 ELSE CHOOSE i \in bad : \A j \in bad : i <= j
SizeGuardOutcome(t, o) ==
    LET k == FirstSizeError(t, o) IN
    IF k > Len(t) THEN "ok"
    ELSE IF k \in TooLargeAt(t, o) THEN "FileTooLarge"
    ELSE "TotalSizeExceeded"

\* The files an archive entry list unpacks to: a later entry of the same name
\* replaces an earlier one.
LastWins(fs) ==
    {<<fs[i].name, fs[i].input>> : i \in {k \in 1..Len(fs) :
        \A j \in (k + 1)..Len(fs) : fs[j].name # fs[k].name}}

----------------------------------------------------------------------------
(* C1: whatever the entry point, an invocation whose projectId does not    *)
(* match ^[A-Za-z0-9_-]+$ (the empty string included) never issues a       *)
(* request, never arms a timer and never creates a file or directory, and  *)
(* ends with the invalid-identifier error.                                 *)
C1_InvalidIdFailsBeforeAnyEffect ==
    (Running /\ ~MatchesIdPattern(options.projectId)) =>
        /\ pc \in {"start", "done"}
        /\ requests = 0
        /\ timersArmed = 0
        /\ timer = "unset"
        /\ disk = {} /\ dirs = {} /\ ~rootMade /\ ~zipWritten
        /\ files = <<>>
        /\ (Done => outcome = "InvalidProjectId" /\ result = "none")

C1_Witness ==
    /\ Done
    /\ entry = "downloadToFile"
    /\ options.projectId = <<"a","/","b">>
    /\ outcome = "InvalidProjectId"

(* C2: in every state of either loop, every name emitted so far (archive   *)
(* entry names, written files, created directories, the name about to be   *)
(* written) is non-empty, does not start with '/', and has no '..' segment.*)
C2_EmittedNamesStayUnderRoot ==
    \A n \in EmittedNames : SafeName(n)

C2_Witness ==
    /\ entry = "cloneProject"
    /\ \E i \in Passed : appFiles[i].path = <<".",".","/","a">> /\ appFiles[i].type = "file"
    /\ <<"a">> \in FilePaths(disk)
    /\ Len(appFiles) = 1

(* C3: an entry whose raw path contains 'node_modules/' or '.git/' is      *)
(* never emitted: every archive entry and every written file comes from an *)
(* entry already passed whose raw path contains neither, there are no more *)
(* of them than such entries, and no emitted name contains either string.  *)
C3_ExcludedNeverEmitted ==
    LET kept == {j \in Passed : ~(Includes(appFiles[j].path, NodeModulesSlash)
                                  \/ Includes(appFiles[j].path, DotGitSlash))} IN
    /\ \A i \in 1..Len(files) :
            \E j \in kept : /\ files[i].name = normalizePath(appFiles[j].path)
                            /\ files[i].input = appFiles[j].contents
    /\ \A f \in disk :
            \E j \in kept : /\ f[1] = normalizePath(appFiles[j].path)
                            /\ f[2] = appFiles[j].contents
    /\ Len(files) <= Cardinality(kept)
    /\ fileCount <= Cardinality(kept)
    /\ \A n \in EmittedNames :
            ~Includes(n, NodeModulesSlash) /\ ~Includes(n, DotGitSlash)

C3_Witness ==
    /\ Done
    /\ entry = "downloadToResponse"
    /\ outcome = "ok"
    /\ Len(appFiles) = 2
    /\ appFiles[1].path = <<"x",".","g","i","t","/","a">>
    /\ appFiles[1].type = "file"
    /\ Len(files) = 1
    /\ files[1].name = <<"a","/","b">>

(* C4 as stated: on a tree that was received, every entry point ends with  *)
(* the Size Guard's outcome: the file-too-large or total-size-exceeded     *)
(* error of the first accepted entry that trips a limit, success when none *)
(* does; a size error returns nothing.                                     *)
C4_Original_SizeGuardDecidesOutcome ==
    (Running /\ Done /\ remote.kind = "tree") =>
        /\ outcome = SizeGuardOutcome(appFiles, options)
        /\ (outcome \in SizeErrors => result = "none" /\ ~zipWritten)

(* C4, amended: the outcome is the Size Guard's unless a filesystem         *)
(* operation fails first. The archive modes (downloadToResponse and its    *)
(* wrappers) end with the Size Guard's outcome; cloneProject ends with it  *)
(* or with the I/O error of a directory creation or write made for an      *)
(* entry before the one that would trip a limit. A size error returns      *)
(* nothing, writes no zip file, and is raised at that entry.               *)
C4_SizeGuardOutcomeUnlessIoError ==
    (Running /\ Done /\ remote.kind = "tree") =>
        /\ outcome \in {SizeGuardOutcome(appFiles, options), "IOError"}
        /\ (outcome = "IOError" =>
                /\ entry = "cloneProject"
                /\ idx < FirstSizeError(appFiles, options))
        /\ (outcome \in SizeErrors =>
                /\ result = "none"
                /\ ~zipWritten
                /\ idx = FirstSizeError(appFiles, options))

C4_Witness ==
    /\ Done
    /\ entry = "downloadToBuffer"
    /\ outcome = "TotalSizeExceeded"
    /\ Len(files) = 1
    /\ idx = 2
    /\ result = "none"

\* The remotes that have not delivered their response when the deadline
\* passes: no headers by then, or headers in time and the body later or never.
Overdue == {"slow", "latebody", "stalled"}

(* C5 as stated: while the remote has not delivered its response the       *)
(* deadline timer is armed; an invocation against a remote that has not    *)
(* delivered its response by the deadline ends with the request-timeout    *)
(* error and returns nothing; a network failure before the deadline ends   *)
(* the invocation with that failure, never with the timeout error, and a   *)
(* timeout never ends as a network failure.                                *)
C5_TimeoutAndNetworkFailureAreDistinct ==
    /\ (pc = "awaitFetch" => timer = "armed" /\ requests = 1)
    /\ (pc = "awaitJson" /\ remote.kind \in Overdue => timer = "armed")
    /\ (Done /\ remote.kind \in Overdue =>
            outcome = "RequestTimeout" /\ result = "none")
    /\ (outcome = "RequestTimeout" => remote.kind \in Overdue /\ timer = "fired")
    /\ (Done /\ remote.kind = "netfail" => outcome = "NetworkError" /\ timer = "cleared")
    /\ (outcome = "NetworkError" => remote.kind = "netfail")

(* C6 as stated: after a successful response whose project.appFiles is     *)
(* absent or has no entries, the invocation ends with the malformed-       *)
(* response error, returns no archive and writes nothing.                  *)
C6_EmptyOrAbsentFilesIsMalformed ==
    (Running /\ Done
       /\ (remote.kind \in {"nullbody", "noproject", "noappfiles"}
           \/ (remote.kind = "tree" /\ appFiles = <<>>))) =>
        /\ outcome = "NoFilesFound"
        /\ result = "none"
        /\ disk = {} /\ dirs = {} /\ ~rootMade /\ ~zipWritten

(* parseUrl, stated without the matcher: the occurrences of a marker that   *)
(* are followed by at least one character other than '/', '?', '#', and    *)
(* the maximal run of such characters at a position.                       *)
FollowedOccurrences(u, m) ==
    {i \in 1..(Len(u) - Len(m)) :
        SubSeq(u, i, i + Len(m) - 1) = m /\ u[i + Len(m)] \notin {"/", "?", "#"}}
IsMaximalRunAt(u, j, id) ==
    /\ id # <<>>
    /\ j + Len(id) - 1 <= Len(u)
    /\ SubSeq(u, j, j + Len(id) - 1) = id
    /\ \A k \in 1..Len(id) : id[k] \notin {"/", "?", "#"}
    /\ (j + Len(id) <= Len(u) => u[j + Len(id)] \in {"/", "?", "#"})
EditMarker == <<"/","e","d","i","t","/">>
HostEditMarker ==
    <<"s","t","a","c","k","b","l","i","t","z",".","c","o","m">> \o EditMarker

(* C7 as stated: a URL in which '/edit/' is followed by a non-empty        *)
(* segment makes parseUrl return the maximal run after such an '/edit/';   *)
(* any other URL makes it throw.                                           *)
C7_Original_EditMarker ==
    (parsed.state # "pending") =>
        LET occ == FollowedOccurrences(url, EditMarker) IN
        IF occ = {} THEN parsed.state = "thrown"
        ELSE /\ parsed.state = "returned"
             /\ \E i \in occ : IsMaximalRunAt(url, i + Len(EditMarker), parsed.id)

(* C7, amended: the marker is 'stackblitz.com/edit/'. parseUrl returns the *)
(* maximal non-empty run of characters other than '/', '?', '#' that       *)
(* follows the leftmost occurrence of that marker which has such a run     *)
(* after it, and throws the invalid-URL error when there is none.          *)
C7_ParseUrlReturnsSegmentAfterHostMarker ==
    (parsed.state # "pending") =>
        LET occ == FollowedOccurrences(url, HostEditMarker) IN
        IF occ = {} THEN parsed.state = "thrown" /\ ~parsed.ok
        ELSE /\ parsed.state = "returned"
             /\ parsed.ok
             /\ \E i \in occ :
                    /\ \A j \in occ : i <= j
                    /\ IsMaximalRunAt(url, i + Len(HostEditMarker), parsed.id)

C7_Witness ==
    /\ parsed.state = "returned"
    /\ url = <<"h","t","t","p","s",":","/","/">> \o HostEditMarker \o <<"k","-","7">>
    /\ parsed.id = <<"k","-","7">>

(* normalizePath as the stack algorithm reads: the segments are what lies  *)
(* between consecutive '/'; empty and '.' segments are dropped; '..' pops  *)
(* the last kept segment when there is one and is dropped otherwise; any   *)
(* other segment is pushed; the stack is joined with '/'.                  *)
SegmentsOf(p) ==
    LET cuts == {0, Len(p) + 1} \cup {i \in 1..Len(p) : p[i] = "/"}
        nth[k \in 1..Cardinality(cuts)] ==
            CHOOSE c \in cuts : Cardinality({d \in cuts : d < c}) = k - 1
    IN [k \in 1..(Cardinality(cuts) - 1) |-> SubSeq(p, nth[k] + 1, nth[k + 1] - 1)]
StackNormalize(p) ==
    LET segs == SegmentsOf(p)
        stack[k \in 0..Len(segs)] ==
            IF k = 0 THEN <<>>
            ELSE IF segs[k] = <<>> \/ segs[k] = <<".">> THEN stack[k - 1]
            ELSE IF segs[k] = <<".", ".">>
                 THEN IF stack[k - 1] = <<>> THEN <<>>
                      ELSE SubSeq(stack[k - 1], 1, Len(stack[k - 1]) - 1)
            ELSE stack[k - 1] \o <<segs[k]>>
        top == stack[Len(segs)]
        glue[k \in 0..Len(top)] ==
            IF k = 0 THEN <<>>
            ELSE IF k = 1 THEN top[1]
            ELSE glue[k - 1] \o <<"/">> \o top[k]
    IN glue[Len(top)]

EtcPasswd == <<"e","t","c","/","p","a","s","s","w","d">>
EscapeTxt == <<"e","s","c","a","p","e",".","t","x","t">>

(* C8: normalizePath equals the stack algorithm on every raw path;         *)
(* '../../etc/passwd' gives 'etc/passwd', 'a/../../b' gives 'b', and a     *)
(* file entry keyed '../escape.txt' is accepted by both loops under the    *)
(* name 'escape.txt'.                                                      *)
C8_NormalizePathIsStackAlgorithm ==
    (sanitized.state = "done") =>
        /\ sanitized.normalized = StackNormalize(rawPath)
        /\ (rawPath = <<".",".","/",".",".","/">> \o EtcPasswd
                => sanitized.normalized = EtcPasswd)
        /\ (rawPath = <<"a","/",".",".","/",".",".","/","b">>
                => sanitized.normalized = <<"b">>)
        /\ (rawPath = <<".",".","/">> \o EscapeTxt =>
                /\ sanitized.zip.kind = "accept" /\ sanitized.zip.name = EscapeTxt
                /\ sanitized.clone.kind = "accept" /\ sanitized.clone.name = EscapeTxt)

C8_Witness ==
    /\ sanitized.state = "done"
    /\ rawPath = <<"a","/",".",".","/",".",".","/","b">>
    /\ sanitized.normalized = <<"b">>

(* C9 as stated: cloneProject, called with the options and against the     *)
(* remote of a finished downloadToResponse, ends with the same outcome,    *)
(* and on success the files under its output root are the archive's        *)
(* entries, a later entry of a name replacing an earlier one.              *)
C9_Original_SameOutcomeInBothModes ==
    (Done /\ call = 2 /\ rerun = "clone") =>
        /\ outcome = prev.outcome
        /\ (outcome = "ok" => disk = LastWins(prev.files))

(* C9, amended: the two reach the same outcome unless a directory creation *)
(* or file write of cloneProject fails; cloneProject then ends with that   *)
(* I/O error where downloadToResponse succeeded or raised a size error.    *)
(* When cloneProject succeeds so did downloadToResponse, and the files     *)
(* under the output root are the archive's entries, a later entry of a     *)
(* name replacing an earlier one.                                          *)
C9_SameOutcomeUnlessIoError ==
    (Done /\ call = 2 /\ rerun = "clone") =>
        /\ prev.entry = "downloadToResponse" /\ entry = "cloneProject"
        /\ outcome = prev.outcome
           \/ (outcome = "IOError" /\ prev.outcome \in SizeErrors \cup {"ok"})
        /\ (outcome = "ok" => prev.outcome = "ok" /\ disk = LastWins(prev.files))
        /\ (outcome \notin {"ok", "IOError"} /\ remote.kind = "tree"
                => totalSize = prev.totalSize)

C9_Witness ==
    /\ Done /\ call = 2 /\ rerun = "clone"
    /\ outcome = "ok"
    /\ Len(prev.files) = 2
    /\ Cardinality(disk) = 1
    /\ disk = LastWins(prev.files)

(* C10: an invocation against a tree and the same invocation against that *)
(* tree without its skipped entries end alike: same outcome (success, or   *)
(* the same error), same archive entry list, same files on disk, same      *)
(* running byte total.                                                     *)
C10_SkippedEntriesChangeNothing ==
    (Done /\ call = 2 /\ rerun = "stripped") =>
        /\ entry = prev.entry
        /\ appFiles = Stripped(prev.tree)
        /\ outcome = prev.outcome
        /\ files = prev.files
        /\ disk = prev.disk
        /\ totalSize = prev.totalSize

C10_Witness ==
    /\ Done /\ call = 2 /\ rerun = "stripped"
    /\ entry = "downloadToResponse"
    /\ Len(prev.tree) = 2
    /\ prev.tree[1].type = "directory"
    /\ Len(appFiles) = 1
    /\ outcome = "FileTooLarge"
    /\ totalSize = 0

(* C11: normalizePath applied to a result of normalizePath returns it      *)
(* unchanged: normalizePath(normalizePath(p)) = normalizePath(p) for every *)
(* raw path p.                                                             *)
C11_NormalizePathIsIdempotent ==
    (sanitized.state = "again") =>
        /\ sanitized.normalized = normalizePath(rawPath)
        /\ sanitized.again = sanitized.normalized

C11_Witness ==
    /\ sanitized.state = "again"
    /\ rawPath = <<"a","/","b","/",".",".","/",".">>
    /\ sanitized.normalized = <<"a">>
    /\ sanitized.again = <<"a">>

\* cloneProject: the entries written so far (the accepted entries the loop
\* has gone past), and the files they leave under the output root.
WrittenAt == AcceptedAt(appFiles) \cap Passed
LeftOnDisk ==
    {<<normalizePath(appFiles[i].path), appFiles[i].contents>> : i \in
        {k \in WrittenAt : \A j \in WrittenAt :
            j > k => normalizePath(appFiles[j].path) # normalizePath(appFiles[k].path)}}

(* C12: in cloneProject an entry's two size checks come before its         *)
(* directory creation and write. In every state each file written is at    *)
(* most maxFileSize bytes and the bytes of all files written so far sum to *)
(* at most maxTotalSize; an entry whose directory is being created or      *)
(* whose file is being written has passed both checks; the entry that      *)
(* raises a size error is not written, and the files written before it     *)
(* are still on disk.                                                      *)
C12_SizeChecksPrecedeWrites ==
    (entry = "cloneProject") =>
        /\ fileCount = Cardinality(WrittenAt)
        /\ disk = LeftOnDisk
        /\ \A i \in WrittenAt : Utf8Size(appFiles[i].contents) <= MaxFileSizeOf(options)
        /\ \A f \in disk : Utf8Size(f[2]) <= MaxFileSizeOf(options)
        /\ AcceptedBytes(appFiles, Cardinality(Passed)) <= MaxTotalSizeOf(options)
        /\ (pc \in {"mkdir", "write"} =>
                /\ idx \in AcceptedAt(appFiles)
                /\ Utf8Size(appFiles[idx].contents) <= MaxFileSizeOf(options)
                /\ AcceptedBytes(appFiles, idx) <= MaxTotalSizeOf(options))
        /\ (Done /\ outcome \in SizeErrors =>
                /\ idx \in AcceptedAt(appFiles)
                /\ idx \notin WrittenAt
                /\ (outcome = "FileTooLarge"
                        => Utf8Size(appFiles[idx].contents) > MaxFileSizeOf(options))
                /\ (outcome = "TotalSizeExceeded"
                        => AcceptedBytes(appFiles, idx) > MaxTotalSizeOf(options)))

C12_Witness ==
    /\ Done
    /\ entry = "cloneProject"
    /\ outcome = "TotalSizeExceeded"
    /\ idx = 2
    /\ fileCount = 1
    /\ disk = {<<(<<"a">>), (<<97>>)>>}
    /\ appFiles[2].path = <<"a","/","b">>

\* The request has completed: the fetch promise has resolved and the
\* invocation goes on with the response.
AfterRequest == {"awaitJson", "mkdirRoot", "loop", "mkdir", "write", "wrap"}

\* What holds of the timer in every state.
TimerStates ==
    /\ timersArmed <= 1
    /\ (requests > 0 => timersArmed = 1)
    /\ (pc \in AfterRequest => timer = "cleared")
    /\ (Done => timer # "armed")
    /\ (Done /\ outcome # "InvalidProjectId" => timer \in {"cleared", "fired"})
    /\ (Done /\ timer = "fired" => outcome = "RequestTimeout")

\* What holds of the timer in every step.
TimerSteps ==
    /\ (requests' > requests => timer = "armed" /\ timersArmed = 1)
    /\ (timersArmed' > timersArmed => timer = "unset" /\ requests = 0)
    /\ (timer' = "fired" /\ timer # "fired" =>
            /\ pc = "awaitFetch"
            /\ pc' = "done"
            /\ outcome' = "RequestTimeout")
    /\ (outcome' = "RequestTimeout" /\ outcome # "RequestTimeout" =>
            pc = "awaitFetch" /\ timer = "armed")

(* C13: an invocation arms at most one deadline timer and arms it before   *)
(* it issues the request; whenever it has ended past the identifier test   *)
(* (success, non-success status, malformed response, size error, I/O       *)
(* error, network failure, timeout) the timer is cleared or has fired; the *)
(* timer fires only while the fetch is pending, never after the invocation *)
(* has ended, and once the request has completed it is cleared, so that    *)
(* nothing is cancelled any more.                                          *)
C13_TimerLifecycle == [](TimerStates) /\ [][TimerSteps]_vars

C13_Witness ==
    /\ Done
    /\ entry = "cloneProject"
    /\ outcome = "IOError"
    /\ timer = "cleared"
    /\ timersArmed = 1
    /\ requests = 1

\* The file entries the loop has gone past whose raw path the node_modules /
\* .git rule does not exclude.
PassedFiles ==
    {i \in Passed : /\ appFiles[i].type = "file"
                    /\ ~Includes(appFiles[i].path, NodeModulesSlash)
                    /\ ~Includes(appFiles[i].path, DotGitSlash)}

(* C14 as stated: the rejection after normalization is never taken. Every  *)
(* file entry whose raw path is not excluded by the node_modules / .git    *)
(* rule has a normalized path that is non-empty, does not start with '/'   *)
(* and passes the '..' test, and it is emitted: the archive has one entry  *)
(* per such file, and cloneProject writes one file per such file.          *)
C14_PathCheckNeverRejects ==
    (Running /\ remote.kind = "tree") =>
        /\ \A i \in PassedFiles :
                LET np == normalizePath(appFiles[i].path) IN
                /\ np # <<>>
                /\ np[1] # "/"
                /\ ~Includes(np, <<".", ".">>)
        /\ (IsZip => Len(files) = Cardinality(PassedFiles))
        /\ (~IsZip => fileCount = Cardinality(PassedFiles))

====
